---- MODULE Spec2Model ----
(***************************************************************************)
(* A model of src/main.py: generate_data (the constrained sample generator *)
(* with its sample-size and critical-t checks, the two random draws, the   *)
(* two clipping steps, the final renormalisation, the table and the CSV    *)
(* write) and analyze_csv (the column check and the paired statistics).    *)
(*                                                                         *)
(* Numbers are exact rationals <<num, den>> with den > 0, extended by the  *)
(* IEEE non-finite values <<1, 0>> (+inf), <<-1, 0>> (-inf) and <<0, 0>>   *)
(* (NaN).  A standard deviation is carried as its square; the quotient     *)
(* sd_target / current_sd is the square root of the quotient of the        *)
(* squares, and the random draws enumerated are those for which that root  *)
(* is rational, so that every array of a run is an array of rationals.     *)
(***************************************************************************)
EXTENDS Integers, Sequences, FiniteSets, TLC

\* Largest total sample size n the enumerated genotype lists sum to.
MaxN == 3

----------------------------------------------------------------------------
(* Exact arithmetic: the float operations of numpy, without rounding.       *)

AbsInt(k) == IF k < 0 THEN -k ELSE k

SignInt(k) == IF k < 0 THEN -1 ELSE IF k > 0 THEN 1 ELSE 0

RECURSIVE GCD(_, _)
GCD(a, b) == IF b = 0 THEN a ELSE GCD(b, a % b)

\* The float num/den in lowest terms; den = 0 gives +inf, -inf or NaN.
Rat(num, den) ==
    IF den = 0 THEN <<SignInt(num), 0>>
    ELSE LET s == IF den < 0 THEN -1 ELSE 1
             g == GCD(AbsInt(num), AbsInt(den))
         IN  <<(s * num) \div g, (s * den) \div g>>

NaN == <<0, 0>>

IsFinite(a) == a[2] # 0

IsNaN(a) == a = NaN

Neg(a) == <<-a[1], a[2]>>

Add(a, b) ==
    IF IsFinite(a) /\ IsFinite(b) THEN Rat(a[1] * b[2] + b[1] * a[2], a[2] * b[2])
    ELSE IF IsNaN(a) \/ IsNaN(b) THEN NaN
    ELSE IF ~IsFinite(a) /\ ~IsFinite(b) THEN (IF a = b THEN a ELSE NaN)
    ELSE IF IsFinite(a) THEN b ELSE a

Sub(a, b) == Add(a, Neg(b))

Mul(a, b) ==
    IF IsFinite(a) /\ IsFinite(b) THEN Rat(a[1] * b[1], a[2] * b[2])
    ELSE IF IsNaN(a) \/ IsNaN(b) \/ a[1] = 0 \/ b[1] = 0 THEN NaN
    ELSE <<SignInt(a[1]) * SignInt(b[1]), 0>>

\* a / b as numpy divides: x/0 is +-inf, 0/0 is NaN, x/inf is 0.
Div(a, b) ==
    IF IsNaN(a) \/ IsNaN(b) THEN NaN
    ELSE IF IsFinite(b) THEN
        (IF IsFinite(a) THEN Rat(a[1] * b[2], a[2] * b[1])
         ELSE IF b[1] = 0 THEN a ELSE <<a[1] * SignInt(b[1]), 0>>)
    ELSE IF IsFinite(a) THEN <<0, 1>> ELSE NaN

\* a < b and a <= b; every comparison with NaN is false.
Lt(a, b) ==
    IF IsNaN(a) \/ IsNaN(b) THEN FALSE
    ELSE IF IsFinite(a) /\ IsFinite(b) THEN a[1] * b[2] < b[1] * a[2]
    ELSE IF IsFinite(a) THEN b[1] > 0
    ELSE IF IsFinite(b) THEN a[1] < 0
    ELSE a[1] < b[1]

Le(a, b) == ~IsNaN(a) /\ ~IsNaN(b) /\ ~Lt(b, a)

Abs(a) == <<AbsInt(a[1]), a[2]>>

Num(k) == <<k, 1>>

Zero == Num(0)

Maximum(a, b) == IF IsNaN(a) \/ IsNaN(b) THEN NaN ELSE IF Lt(a, b) THEN b ELSE a

Minimum(a, b) == IF IsNaN(a) \/ IsNaN(b) THEN NaN ELSE IF Lt(b, a) THEN b ELSE a

\* np.clip(v, lo, hi) = minimum(maximum(v, lo), hi), also when lo > hi.
Clip(v, lo, hi) == Minimum(Maximum(v, lo), hi)

IsSquareInt(k) == \E r \in 0..k : r * r = k

ISqrt(k) == CHOOSE r \in 0..k : r * r = k

\* Whether the square root of a is a rational (or non-finite) number.
HasRationalSqrt(a) ==
    IF IsFinite(a) /\ a[1] >= 0 THEN IsSquareInt(a[1]) /\ IsSquareInt(a[2]) ELSE TRUE

\* np.sqrt on the values with a rational root; the root of a negative is NaN.
Sqrt(a) ==
    IF IsNaN(a) \/ a[1] < 0 THEN NaN
    ELSE IF ~IsFinite(a) THEN a
    ELSE <<ISqrt(a[1]), ISqrt(a[2])>>

----------------------------------------------------------------------------
(* Arrays are sequences of numbers.                                         *)

RECURSIVE SumTo(_, _)
SumTo(a, k) == IF k = 0 THEN Zero ELSE Add(SumTo(a, k - 1), a[k])

\* a.mean(): 0/0 = NaN for an empty array.
Mean(a) == Div(SumTo(a, Len(a)), Num(Len(a)))

\* a - b and a + b, elementwise.
ArrSub(a, b) == [i \in 1..Len(a) |-> Sub(a[i], b[i])]

ArrAdd(a, b) == [i \in 1..Len(a) |-> Add(a[i], b[i])]

\* a - a.mean() + target (lines 23, 29, 40, 45).
Recentre(a, target) ==
    LET m == Mean(a) IN [i \in 1..Len(a) |-> Add(Sub(a[i], m), target)]

\* The square of a.std(ddof=1): the squared deviations over n - 1.
StdSq(a) ==
    LET m  == Mean(a)
        sq == [i \in 1..Len(a) |-> Mul(Sub(a[i], m), Sub(a[i], m))]
    IN  Div(SumTo(sq, Len(a)), Num(Len(a) - 1))

\* Rescale without the final + mean_diff.
RescaleWithoutShift(a, current_sd_sq, sd_target_sq, mean_diff) ==
    LET m     == Mean(a)
        ratio == Sqrt(Div(sd_target_sq, current_sd_sq))
    IN  [i \in 1..Len(a) |-> Mul(Sub(a[i], m), ratio)]

\* (a - a.mean()) / current_sd * sd_target + mean_diff (lines 34, 48), the two
\* standard deviations given by their squares.
Rescale(a, current_sd_sq, sd_target_sq, mean_diff) ==
    LET m     == Mean(a)
        ratio == Sqrt(Div(sd_target_sq, current_sd_sq))
    IN  [i \in 1..Len(a) |-> Add(Mul(Sub(a[i], m), ratio), mean_diff)]

ClipArr(a, lo, hi) == [i \in 1..Len(a) |-> Clip(a[i], lo, hi)]

Full(n, v) == [i \in 1..n |-> v]

----------------------------------------------------------------------------
(* Tables and files.                                                        *)

\* A pandas DataFrame: the column names and, for each, its array.
DataFrame(names, arrays) == [columns |-> names, cols |-> arrays]

NoFrame == DataFrame(<<>>, <<>>)

HasColumn(frame, name) == \E j \in 1..Len(frame.columns) : frame.columns[j] = name

\* frame[name]: the array of the first column of that name.
Column(frame, name) ==
    frame.cols[CHOOSE j \in 1..Len(frame.columns) :
                   /\ frame.columns[j] = name
                   /\ \A k \in 1..(j - 1) : frame.columns[k] # name]

NRows(frame) == IF Len(frame.cols) = 0 THEN 0 ELSE Len(frame.cols[1])

NoFile == [exists |-> FALSE, header |-> <<>>, rows |-> <<>>]

CsvFile(header, rows) == [exists |-> TRUE, header |-> header, rows |-> rows]

\* to_csv with the row index written as a first, unnamed column (index=True).
ToCsvWithIndex(frame) ==
    CsvFile(<<"">> \o frame.columns,
            [i \in 1..NRows(frame) |->
                <<i - 1>> \o [j \in 1..Len(frame.columns) |-> frame.cols[j][i]]])

\* frame.to_csv(path, index=False): a header line, then one line per row.
ToCsv(frame) ==
    CsvFile(frame.columns,
            [i \in 1..NRows(frame) |->
                [j \in 1..Len(frame.columns) |-> frame.cols[j][i]]])

\* pd.read_csv(path): the header names the columns, the lines fill them.
ReadCsv(file) ==
    DataFrame(file.header,
              [j \in 1..Len(file.header) |->
                  [i \in 1..Len(file.rows) |-> file.rows[i][j]]])

\* The files on disk before the program runs.
Paths == {"out.csv", "paired.csv", "constant.csv", "xy.csv",
          "baseline_only.csv", "followup_only.csv", "absent.csv"}

InitFs ==
    [p \in Paths |->
        CASE p = "paired.csv" ->
                CsvFile(<<"Genotype", "Baseline", "Followup">>,
                        << <<"WT", Num(1), Num(3)>>, <<"WT", Num(2), Num(3)>>,
                           <<"KO", Num(2), Num(5)>> >>)
          [] p = "constant.csv" ->
                CsvFile(<<"Followup", "Baseline">>,
                        << <<Num(3), Num(1)>>, <<Num(4), Num(2)>> >>)
          [] p = "xy.csv" ->
                CsvFile(<<"X", "Y">>, << <<Num(1), Num(2)>>, <<Num(3), Num(5)>> >>)
          [] p = "baseline_only.csv" ->
                CsvFile(<<"Genotype", "Baseline">>, << <<"WT", Num(1)>>, <<"KO", Num(2)>> >>)
          [] p = "followup_only.csv" ->
                CsvFile(<<"Followup">>, << <<Num(1)>>, <<Num(2)>> >>)
          [] OTHER -> NoFile]

----------------------------------------------------------------------------
(* The inputs enumerated.                                                   *)

MeanDiffs == {Num(-1), Num(0), Num(2)}

\* p_value; 1 is the value whose critical t is zero.
PValues == {<<1, 2>>, <<1, 1>>}

\* The magnitudes stats.t.ppf may return for a probability other than 1/2.
TMagnitudes == {1, 2}

\* value_range = (min_val, max_val), among them min = max and min > max.
ValueRanges == {<<Num(0), Num(4)>>, <<Num(2), Num(2)>>, <<Num(4), Num(0)>>}

BaselineNormals == {Num(3)}

FollowupNormals == {Num(3)}

DataTypes == {"normal", "abnormal"}

OutputFile == "out.csv"

GroupNames == <<"WT", "KO">>

Counts == (-1)..MaxN

RECURSIVE TotalTo(_, _)
TotalTo(genotypes, k) ==
    IF k = 0 THEN 0 ELSE TotalTo(genotypes, k - 1) + genotypes[k][2]

\* n = sum(count for _, count in genotypes) (line 8).
Total(genotypes) == TotalTo(genotypes, Len(genotypes))

\* The genotype lists: up to Len(GroupNames) (name, count) pairs of total <= MaxN.
GenotypeLists ==
    {g \in UNION {{[i \in 1..k |-> <<GroupNames[i], c[i]>>] : c \in [1..k -> Counts]} :
                     k \in 0..Len(GroupNames)} : Total(g) <= MaxN}

\* The variates of np.random.uniform on [0, 1) and the deviations scale * z of
\* np.random.normal that a run may draw.
UniformVariates == {<<0, 1>>, <<1, 2>>}

NormalDeviates == {Num(0), Num(1)}

NoArgs ==
    [mean_diff |-> Zero, p_value |-> Zero, genotypes |-> <<>>, output_file |-> "",
     value_range |-> <<Zero, Zero>>, baseline_normal |-> Zero,
     followup_normal |-> Zero, data_type |-> ""]

----------------------------------------------------------------------------
(* generate_data, statement by statement.                                   *)

\* stats.t.ppf(q, df): zero exactly at q = 1/2, positive above, negative below.
TPpf(q, df) ==
    IF q = <<1, 2>> THEN {Zero}
    ELSE IF Lt(<<1, 2>>, q) THEN {Num(m) : m \in TMagnitudes}
    ELSE {Num(-m) : m \in TMagnitudes}

\* The size check off by one: n < 1.
SampleSizeBelowOne(n) == n < 1

\* if n < 2: raise (line 9).
SampleSizeInvalid(n) == n < 2

\* The zero check of t_target left out.
TTargetNeverZero(t) == FALSE

\* if t_target == 0: raise (line 13).
TTargetIsZero(t) == t = Zero

\* The square of sd_target = abs(mean_diff) * sqrt(n) / abs(t_target) (line 16).
SdTargetSq(mean_diff, n, t) ==
    Div(Mul(Mul(Abs(mean_diff), Abs(mean_diff)), Num(n)), Mul(Abs(t), Abs(t)))

\* np.random.uniform(low, high): low + (high - low) * u for a variate u of [0, 1).
Uniform(low, high, u) == Add(low, Mul(Sub(high, low), u))

\* offset and offset_follow (lines 21, 38).
Offset(a) ==
    IF a.data_type = "abnormal"
    THEN Mul(Sub(a.value_range[2], a.value_range[1]), <<1, 4>>) ELSE Zero

OffsetFollow(a) ==
    IF a.data_type = "abnormal"
    THEN Mul(Neg(Sub(a.value_range[2], a.value_range[1])), <<1, 4>>) ELSE Zero

\* The baseline without the clip of line 24.
BaselineUnclipped(a, u) ==
    LET drawn == [i \in 1..Len(u) |-> Uniform(a.value_range[1], a.value_range[2], u[i])]
    IN  Recentre(drawn, Add(a.baseline_normal, Offset(a)))

\* baseline: drawn, recentred on baseline_target, clipped (lines 17-24).
BaselineOf(a, u) ==
    LET min_val == a.value_range[1]
        max_val == a.value_range[2]
        drawn   == [i \in 1..Len(u) |-> Uniform(min_val, max_val, u[i])]
    IN  ClipArr(Recentre(drawn, Add(a.baseline_normal, Offset(a))), min_val, max_val)

\* np.random.normal(loc, scale, size): loc + scale * z, constant when scale is 0;
\* x holds the deviations scale * z (line 27).
NormalDraw(loc, scale_sq, x) ==
    [i \in 1..Len(x) |-> IF scale_sq = Zero THEN loc ELSE Add(loc, x[i])]

\* The zero check of current_sd left out.
SdNeverZero(current_sd_sq) == FALSE

\* current_sd == 0 (lines 31, 47); the deviation is zero exactly when its square is.
IsZeroSd(current_sd_sq) == current_sd_sq = Zero

\* diff: drawn, recentred, then rescaled or replaced by the constant (lines 27-34).
FirstDiff(a, sd_target_sq, x) ==
    LET recentred  == Recentre(NormalDraw(a.mean_diff, sd_target_sq, x), a.mean_diff)
        current_sd == StdSq(recentred)
    IN  [current_sd_sq |-> current_sd,
         diff |-> IF IsZeroSd(current_sd)
                  THEN Full(Len(x), a.mean_diff)
                  ELSE Rescale(recentred, current_sd, sd_target_sq, a.mean_diff)]

\* followup = baseline + diff, moved to follow_target, clipped (lines 36-41).
ClippedFollowup(a, base, d) ==
    ClipArr(Recentre(ArrAdd(base, d), Add(a.followup_normal, OffsetFollow(a))),
            a.value_range[1], a.value_range[2])

\* followup = baseline + diff (lines 36, 49).
FinalFollowup(base, d) == ArrAdd(base, d)

\* The renormalisation followed by a second clip of followup.
RenormalisedThenClipped(a, sd_target_sq, base, follow) ==
    LET recentred  == Recentre(ArrSub(follow, base), a.mean_diff)
        current_sd == StdSq(recentred)
        d          == IF ~IsZeroSd(current_sd)
                      THEN Rescale(recentred, current_sd, sd_target_sq, a.mean_diff)
                      ELSE recentred
    IN  [current_sd_sq |-> current_sd, diff |-> d,
         followup |-> ClipArr(FinalFollowup(base, d), a.value_range[1], a.value_range[2])]

\* The difference recomputed from the clipped followup and renormalised once
\* (lines 44-49).
Renormalised(a, sd_target_sq, base, follow) ==
    LET recentred  == Recentre(ArrSub(follow, base), a.mean_diff)
        current_sd == StdSq(recentred)
        d          == IF ~IsZeroSd(current_sd)
                      THEN Rescale(recentred, current_sd, sd_target_sq, a.mean_diff)
                      ELSE recentred
    IN  [current_sd_sq |-> current_sd, diff |-> d, followup |-> FinalFollowup(base, d)]

\* The draws enumerated: those for which both quotients sd_target / current_sd
\* of the run are rational; first is the outcome of lines 27-34 for the draw.
ExactDraw(a, sd_target_sq, base, first) ==
    /\ HasRationalSqrt(Div(sd_target_sq, first.current_sd_sq))
    /\ HasRationalSqrt(
           Div(sd_target_sq,
               StdSq(Recentre(ArrSub(ClippedFollowup(a, base, first.diff), base),
                              a.mean_diff))))

\* [name] * count: empty for a count below 1.
Repeat(name, count) == [i \in 1..count |-> name]

RECURSIVE ExpandTo(_, _)
ExpandTo(genotypes, k) ==
    IF k = 0 THEN <<>>
    ELSE ExpandTo(genotypes, k - 1) \o Repeat(genotypes[k][1], genotypes[k][2])

RECURSIVE ExpandFrom(_, _)
ExpandFrom(genotypes, k) ==
    IF k > Len(genotypes) THEN <<>>
    ELSE ExpandFrom(genotypes, k + 1) \o Repeat(genotypes[k][1], genotypes[k][2])

\* The groups expanded last first.
GenotypeListReversed(genotypes) == ExpandFrom(genotypes, 1)

\* genotype_list (lines 50-52).
GenotypeList(genotypes) == ExpandTo(genotypes, Len(genotypes))

\* pd.DataFrame({...}) (lines 54-58) raises when its arrays differ in length.
FrameLengthsAgree(labels, base, follow) ==
    Len(labels) = Len(base) /\ Len(base) = Len(follow)

VARIABLES
    pc,             \* the statement generate_data is at
    args,           \* the arguments of the call
    n,              \* total sample size (line 8)
    t_target,       \* line 12
    sd_target_sq,   \* the square of sd_target (line 16)
    baseline,       \* lines 18-24
    diff,           \* lines 27-34, 44-48
    current_sd_sq,  \* the square of current_sd (lines 30, 46)
    followup,       \* lines 36-41, 49
    df,             \* the table (lines 54-58), returned at line 61
    err,            \* the error raised, "" for none
    rng,            \* variates consumed from the process-wide np.random stream
    fs,             \* the files on disk
    apc,            \* the statement analyze_csv is at
    file_path,      \* the argument of analyze_csv
    table,          \* df of analyze_csv (line 66)
    result          \* what analyze_csv returns (line 72)

gen_vars == <<pc, args, n, t_target, sd_target_sq, baseline, diff, current_sd_sq,
              followup, df, err, rng>>

ana_vars == <<apc, file_path, table, result>>

vars == <<gen_vars, fs, ana_vars>>

NoResult == [mean |-> NaN, p_val |-> [t_sq |-> NaN, df |-> 0]]

Init ==
    /\ pc = "idle"
    /\ args = NoArgs
    /\ n = 0
    /\ t_target = NaN
    /\ sd_target_sq = NaN
    /\ baseline = <<>>
    /\ diff = <<>>
    /\ current_sd_sq = NaN
    /\ followup = <<>>
    /\ df = NoFrame
    /\ err = ""
    /\ rng = 0
    /\ fs = InitFs
    /\ apc = "idle"
    /\ file_path = ""
    /\ table = NoFrame
    /\ result = NoResult

\* main calls generate_data once (line 102); n is summed and checked (lines 8-10).
Call ==
    /\ pc = "idle" /\ apc = "idle"
    /\ \E md \in MeanDiffs, p \in PValues, g \in GenotypeLists, vr \in ValueRanges,
          bn \in BaselineNormals, fn \in FollowupNormals, dt \in DataTypes :
          /\ args' = [mean_diff |-> md, p_value |-> p, genotypes |-> g,
                      output_file |-> OutputFile, value_range |-> vr,
                      baseline_normal |-> bn, followup_normal |-> fn, data_type |-> dt]
          /\ n' = Total(g)
          /\ IF SampleSizeInvalid(Total(g))
             THEN pc' = "raised" /\ err' = "sample_size"
             ELSE pc' = "solve" /\ err' = err
    /\ UNCHANGED <<t_target, sd_target_sq, baseline, diff, current_sd_sq, followup,
                   df, rng, fs, ana_vars>>

\* t_target, its zero check and sd_target (lines 12-16).
Solve ==
    /\ pc = "solve"
    /\ \E t \in TPpf(Sub(Num(1), Div(args.p_value, Num(2))), n - 1) :
          /\ t_target' = t
          /\ IF TTargetIsZero(t)
             THEN pc' = "raised" /\ err' = "t_zero" /\ sd_target_sq' = sd_target_sq
             ELSE /\ pc' = "baseline" /\ err' = err
                  /\ sd_target_sq' = SdTargetSq(args.mean_diff, n, t)
    /\ UNCHANGED <<args, n, baseline, diff, current_sd_sq, followup, df, rng, fs,
                   ana_vars>>

\* The baseline draw, recentring and clip (lines 17-24).
DrawBaseline ==
    /\ pc = "baseline"
    /\ \E u \in [1..n -> UniformVariates] :
          baseline' = BaselineOf(args, u)
    /\ rng' = rng + n
    /\ pc' = "diff"
    /\ UNCHANGED <<args, n, t_target, sd_target_sq, diff, current_sd_sq, followup,
                   df, err, fs, ana_vars>>

\* The difference draw and its exact mean and sd (lines 27-34).
DrawDiff ==
    /\ pc = "diff"
    /\ \E x \in [1..n -> NormalDeviates] :
          LET first == FirstDiff(args, sd_target_sq, x)
          IN  /\ ExactDraw(args, sd_target_sq, baseline, first)
              /\ diff' = first.diff
              /\ current_sd_sq' = first.current_sd_sq
    /\ rng' = rng + n
    /\ pc' = "followup"
    /\ UNCHANGED <<args, n, t_target, sd_target_sq, baseline, followup, df, err, fs,
                   ana_vars>>

\* followup built, moved and clipped (lines 36-41).
MakeFollowup ==
    /\ pc = "followup"
    /\ followup' = ClippedFollowup(args, baseline, diff)
    /\ pc' = "renorm"
    /\ UNCHANGED <<args, n, t_target, sd_target_sq, baseline, diff, current_sd_sq,
                   df, err, rng, fs, ana_vars>>

\* The final renormalisation of the difference (lines 43-49).
Renormalise ==
    /\ pc = "renorm"
    /\ LET r == Renormalised(args, sd_target_sq, baseline, followup)
       IN  /\ diff' = r.diff
           /\ current_sd_sq' = r.current_sd_sq
           /\ followup' = r.followup
    /\ pc' = "table"
    /\ UNCHANGED <<args, n, t_target, sd_target_sq, baseline, df, err, rng, fs,
                   ana_vars>>

\* genotype_list and the DataFrame (lines 50-58).
BuildTable ==
    /\ pc = "table"
    /\ LET labels == GenotypeList(args.genotypes)
       IN  IF FrameLengthsAgree(labels, baseline, followup)
           THEN /\ df' = DataFrame(<<"Genotype", "Baseline", "Followup">>,
                                   <<labels, baseline, followup>>)
                /\ pc' = "write" /\ err' = err
           ELSE pc' = "raised" /\ err' = "length_mismatch" /\ df' = df
    /\ UNCHANGED <<args, n, t_target, sd_target_sq, baseline, diff, current_sd_sq,
                   followup, rng, fs, ana_vars>>

\* df.to_csv(output_file, index=False); return df (lines 60-61).
WriteCsv ==
    /\ pc = "write"
    /\ fs' = [fs EXCEPT ![args.output_file] = ToCsv(df)]
    /\ pc' = "done"
    /\ UNCHANGED <<args, n, t_target, sd_target_sq, baseline, diff, current_sd_sq,
                   followup, df, err, rng, ana_vars>>

----------------------------------------------------------------------------
(* analyze_csv.                                                             *)

\* The column check passing when either column is present.
MissingBothColumns(frame) ==
    {"Baseline", "Followup"} \cap {frame.columns[j] : j \in 1..Len(frame.columns)} = {}

\* not {"Baseline", "Followup"}.issubset(df.columns) (line 67).
MissingColumns(frame) ==
    ~({"Baseline", "Followup"} \subseteq {frame.columns[j] : j \in 1..Len(frame.columns)})

\* stats.ttest_rel(a, b): the p-value is the two-sided tail probability of the
\* statistic t = mean(d) / sqrt(var(d) / n) with n - 1 degrees of freedom, kept
\* as the pair (t squared, degrees of freedom) that determines it.
TTestRel(a, b) ==
    LET d == ArrSub(a, b)
        m == Mean(d)
    IN  [t_sq |-> Div(Mul(Mul(m, m), Num(Len(d))), StdSq(d)), df |-> Len(d) - 1]

\* diff.mean() and p_val (lines 70-72).
Statistics(frame) ==
    [mean  |-> Mean(ArrSub(Column(frame, "Followup"), Column(frame, "Baseline"))),
     p_val |-> TTestRel(Column(frame, "Followup"), Column(frame, "Baseline"))]

\* main calls analyze_csv (line 82): the file is read and its columns checked
\* (lines 66-68).
AnalyzeCall ==
    /\ pc = "idle" /\ apc = "idle"
    /\ \E path \in Paths :
          /\ file_path' = path
          /\ IF ~fs[path].exists
             THEN apc' = "raised" /\ err' = "file_not_found" /\ table' = table
             ELSE /\ table' = ReadCsv(fs[path])
                  /\ IF MissingColumns(ReadCsv(fs[path]))
                     THEN apc' = "raised" /\ err' = "missing_columns"
                     ELSE apc' = "stats" /\ err' = err
    /\ UNCHANGED <<pc, args, n, t_target, sd_target_sq, baseline, diff, current_sd_sq,
                   followup, df, rng, fs, result>>

\* The mean difference and the paired t-test (lines 70-72).
AnalyzeStats ==
    /\ apc = "stats"
    /\ result' = Statistics(table)
    /\ apc' = "done"
    /\ UNCHANGED <<gen_vars, fs, file_path, table>>

Next ==
    \/ Call
    \/ Solve
    \/ DrawBaseline
    \/ DrawDiff
    \/ MakeFollowup
    \/ Renormalise
    \/ BuildTable
    \/ WriteCsv
    \/ AnalyzeCall
    \/ AnalyzeStats

Spec == Init /\ [][Next]_vars

----------------------------------------------------------------------------
(* The claims.                                                              *)

MinVal == args.value_range[1]

MaxVal == args.value_range[2]

RangeIsValid == Lt(MinVal, MaxVal)

WithinRange(v) == Le(MinVal, v) /\ Le(v, MaxVal)

\* The statements of generate_data after the baseline is built.
AfterBaseline == {"diff", "followup", "renorm", "table", "write", "done"}

\* The statements of generate_data after the final renormalisation.
AfterRenormalise == {"table", "write", "done"}

\* The difference Followup - Baseline of the returned table.
ReturnedDiff == ArrSub(Column(df, "Followup"), Column(df, "Baseline"))

AllCountsPositive ==
    \A k \in 1..Len(args.genotypes) : args.genotypes[k][2] > 0

\* C1: once generate_data has been called, the sample-size error has been raised
\* exactly when the genotype counts sum to less than 2; with a sum of 2 or more
\* it is never raised, at any later statement.
C1_SampleSizeErrorIffBelowTwo ==
    pc # "idle" =>
        ((pc = "raised" /\ err = "sample_size") <=> Total(args.genotypes) < 2)

\* C1 witness: the call with the single genotype of count 1 has raised the error.
C1_Witness ==
    /\ pc = "raised" /\ err = "sample_size"
    /\ Len(args.genotypes) = 1 /\ args.genotypes[1][2] = 1

\* C2: the difference Followup - Baseline of a returned table has mean mean_diff
\* and, when the difference recomputed after clipping had a nonzero standard
\* deviation, the sample standard deviation sd_target.
C2_ReturnedDiffHasTargetMeanAndSd ==
    pc = "done" =>
        /\ Mean(ReturnedDiff) = args.mean_diff
        /\ (current_sd_sq # Zero => StdSq(ReturnedDiff) = sd_target_sq)

\* C2 witness: a table is returned although clipping had moved the standard
\* deviation of the recomputed difference away from a nonzero sd_target.
C2_Witness ==
    /\ pc = "done" /\ RangeIsValid
    /\ sd_target_sq # Zero
    /\ current_sd_sq # Zero /\ current_sd_sq # sd_target_sq

\* C3: no table is returned for a value_range with min >= max.
C3_NoTableForInvalidRange ==
    pc = "done" => RangeIsValid

\* C4: with min < max every entry of Baseline lies in [min, max] from the clip of
\* line 24 on, at every later statement and in the returned table.
C4_BaselineWithinRange ==
    (pc \in AfterBaseline /\ RangeIsValid) =>
        /\ Len(baseline) = n
        /\ \A i \in 1..n : WithinRange(baseline[i])
        /\ pc \in {"write", "done"} =>
              \A i \in 1..n : WithinRange(Column(df, "Baseline")[i])

\* C4 witness: a table is returned whose Baseline has an entry on the upper bound
\* and an entry inside the range.
C4_Witness ==
    /\ pc = "done" /\ RangeIsValid
    /\ \E i, j \in 1..n :
          /\ Column(df, "Baseline")[i] = MaxVal
          /\ Lt(Column(df, "Baseline")[j], MaxVal)

\* C5: a call whose sample size is below 2 or whose critical t-value is zero has
\* raised with no variate drawn, no array or table built and no file written.
C5_FailedCallLeavesNoOutput ==
    (pc # "idle" /\ (Total(args.genotypes) < 2 \/ t_target = Zero)) =>
        /\ pc = "raised"
        /\ rng = 0
        /\ fs = InitFs
        /\ df = NoFrame
        /\ baseline = <<>> /\ diff = <<>> /\ followup = <<>>

\* C5 witness: the call has failed on a critical t-value of zero.
C5_Witness ==
    /\ pc = "raised" /\ err = "t_zero"
    /\ Total(args.genotypes) >= 2 /\ t_target = Zero

C7_MissingColumnsIffAbsent ==
    (apc # "idle" /\ fs[file_path].exists) =>
        /\ (apc = "raised" /\ err = "missing_columns")
              <=> (~HasColumn(table, "Baseline") \/ ~HasColumn(table, "Followup"))
        /\ apc = "raised" => result = NoResult
        /\ apc = "done" =>
              LET d == ArrSub(Column(table, "Followup"), Column(table, "Baseline"))
              IN  /\ result.mean = Mean(d)
                  /\ result.p_val.df = Len(d) - 1
                  /\ result.p_val.t_sq =
                        Div(Mul(Mul(Mean(d), Mean(d)), Num(Len(d))), StdSq(d))

\* C7 witness: the error is raised for a table with Baseline but no Followup.
C7_Witness ==
    /\ apc = "raised" /\ err = "missing_columns"
    /\ HasColumn(table, "Baseline") /\ ~HasColumn(table, "Followup")

\* C8: no entry of diff is ever the NaN or infinity of a division by a zero
\* standard deviation: a zero deviation of the recentred draw leaves the constant
\* array of mean_diff, and so does a zero deviation of the recomputed difference.
C8_NoDivisionByZeroSd ==
    /\ \A i \in 1..Len(diff) : IsFinite(diff[i])
    /\ (pc \in {"followup", "renorm"} \cup AfterRenormalise /\ current_sd_sq = Zero) =>
          diff = Full(n, args.mean_diff)

\* C8 witness: the recomputed difference had a zero deviation while sd_target
\* was not zero.
C8_Witness ==
    /\ pc \in AfterRenormalise
    /\ current_sd_sq = Zero /\ sd_target_sq # Zero /\ IsFinite(sd_target_sq)

\* C9: for positive counts the returned table has n rows in each of its three
\* columns and row i carries the name of the group whose count range holds i;
\* no such call fails on the lengths of the columns.
C9_TableHasNRowsInGroupOrder ==
    AllCountsPositive =>
        /\ ~(pc = "raised" /\ err = "length_mismatch")
        /\ pc \in {"write", "done"} =>
              /\ NRows(df) = n
              /\ \A j \in 1..3 : Len(df.cols[j]) = n
              /\ Len(Column(df, "Baseline")) = Len(Column(df, "Followup"))
              /\ \A i \in 1..n : \A k \in 1..Len(args.genotypes) :
                    (TotalTo(args.genotypes, k - 1) < i /\ i <= TotalTo(args.genotypes, k))
                        => Column(df, "Genotype")[i] = args.genotypes[k][1]

\* C9 witness: a table is returned for two groups of positive counts.
C9_Witness ==
    /\ pc = "done" /\ Len(args.genotypes) = 2 /\ AllCountsPositive
    /\ args.genotypes[1][2] # args.genotypes[2][2]

\* C10: the followup clipped at line 41 lies in [min, max]; after the single
\* renormalisation followup is baseline + diff entry by entry, with no clip
\* applied, and that is the Followup column returned.
C10_FinalFollowupIsBaselinePlusDiff ==
    /\ (pc = "renorm" /\ RangeIsValid) => \A i \in 1..n : WithinRange(followup[i])
    /\ pc \in AfterRenormalise =>
          /\ Len(followup) = n
          /\ \A i \in 1..n : followup[i] = Add(baseline[i], diff[i])
    /\ pc \in {"write", "done"} => Column(df, "Followup") = followup

\* C10 witness: a returned Followup entry lies outside [min, max] for a valid
\* range and n >= 2.
C10_Witness ==
    /\ pc = "done" /\ RangeIsValid /\ n >= 2
    /\ \E i \in 1..n : ~WithinRange(Column(df, "Followup")[i])

====
